---- MODULE Spec2Model ----
(***************************************************************************)
(* Trust receipt ledger and verification engine of SYMBI-SYNERGY:          *)
(*   backend/services/receipt.service.js   (receipt builder, key manager)  *)
(*   backend/controllers/receiptVerifier.controller.js (verifier, auditor) *)
(*   demo-receipt-verifier.js              (hash-chain receipt builder)    *)
(*   trust-ledger-demo.js                  (standalone demo server)        *)
(*                                                                         *)
(* Every JavaScript string is a sequence of tokens [a, h]: a names the     *)
(* kind of text and h is the text it was made from.  A digest is a token   *)
(* that wraps its preimage, so two digests are equal exactly when their    *)
(* preimages are (a collision-free SHA-256).                               *)
(***************************************************************************)
EXTENDS Integers, Sequences, FiniteSets, TLC

VARIABLES
  hasSignSync,   \* whether the runtime's crypto module has signSync/verifySync
  env,           \* process.env: RECEIPT_SIGNING_PRIVATE_KEY_PEM, RECEIPT_VERIFY_PUBKEY_B64U
  receiptKeys,   \* receipt.service.js: let receiptKeys
  rcpt,          \* the receipt in the caller's hands
  prov,          \* where rcpt came from and what was done to it
  op,            \* the operation that ran last
  out,           \* what that operation returned, threw or answered
  store,         \* InteractionEvent documents of one session, by timestamp
  pc,            \* position of the session audit handler
  events,        \* verifySessionChain: const events
  idx,           \* verifySessionChain: let i
  prevHash,      \* verifySessionChain: let prevHash
  chainResults,  \* verifySessionChain: const chainResults
  TRUST_RECEIPTS \* trust-ledger-demo.js: the demo server's receipts, in insertion order

vars == <<hasSignSync, env, receiptKeys, rcpt, prov, op, out,
          store, pc, events, idx, prevHash, chainResults, TRUST_RECEIPTS>>

----------------------------------------------------------------------------
(* Bounds *)

MaxChain == 3      \* longest session that is built, stored and audited

MaxBatch == 3      \* longest list handed to generateBatchReceipts

MaxReceipts == 3   \* most receipts the demo server is asked to generate

----------------------------------------------------------------------------
(* JavaScript values *)

Lit(s) == <<[a |-> s, h |-> <<>>]>>

Null == <<[a |-> "#null", h |-> <<>>]>>

Undef == <<[a |-> "#undefined", h |-> <<>>]>>

EmptyStr == <<>>

\* JavaScript truthiness of a string, null or undefined
Truthy(x) == x # Null /\ x # Undef /\ x # EmptyStr

\* x || y
OrElse(x, y) == IF Truthy(x) THEN x ELSE y

\* the string a value turns into when it is an operand of +
JsStr(x) == IF x = Null THEN Lit("null")
            ELSE IF x = Undef THEN Lit("undefined")
            ELSE x

\* x + y with at least one string operand
Plus(x, y) == JsStr(x) \o JsStr(y)

\* utils/hash sha256Hex: hex digest of a string
sha256Hex(s) == <<[a |-> "sha256", h |-> s]>>

IsHex(s) == Len(s) = 1 /\ s[1].a = "sha256"

\* Buffer.from(s, 'hex'): the decoded bytes; decoding stops at the first
\* character that is not a hex digit
BufferFromHex(s) == IF IsHex(s) THEN <<[a |-> "bin", h |-> s]>> ELSE <<>>

Base64(bytes) == <<[a |-> "b64", h |-> bytes]>>

Base64Url(bytes) == <<[a |-> "b64url", h |-> bytes]>>

\* Buffer.from(s, 'base64') and Buffer.from(s, 'base64url'): both accept both
\* alphabets and never throw on a string; other text decodes to other bytes
BufferFromBase64(s) ==
  IF Len(s) = 1 /\ s[1].a \in {"b64", "b64url"} THEN s[1].h
  ELSE <<[a |-> "b64dec", h |-> s]>>

----------------------------------------------------------------------------
(* JSON text and the canonical encoder *)

\* every member name that occurs, in lexicographic order
KeyOrder == <<"analysis", "compliance", "consent_architecture",
              "continuous_validation", "ethical_override", "event_id",
              "inspection_mandate", "metadata", "model_name", "model_vendor",
              "moral_recognition", "prev_hash", "prompt", "prompt_hash",
              "prompt_length", "response", "response_hash", "response_length",
              "right_to_disconnect", "session_id", "timestamp", "trust_version",
              "user", "user_id">>

JStr(s) == <<[a |-> "str", h |-> s]>>

JNum(n) == <<[a |-> "num", h |-> [j \in 1..n |-> [a |-> "1", h |-> <<>>]]]>>

JTrue == Lit("true")

JFalse == Lit("false")

JNull == Lit("null")

Member(k, v) == [a |-> k, h |-> v]

\* an object literal / JSON.stringify of it: the members that are not
\* undefined, in insertion order
JObj(members) ==
  <<[a |-> "obj", h |-> SelectSeq(members, LAMBDA m : m.h # Undef)]>>

IsObj(text) == Len(text) = 1 /\ text[1].a = "obj"

IsJson(text) ==
  Len(text) = 1 /\ text[1].a \in {"obj", "str", "num", "true", "false", "null"}

HasKey(ms, k) == \E j \in 1..Len(ms) : ms[j].a = k

LastOf(ms, k) ==
  ms[CHOOSE j \in 1..Len(ms) :
       ms[j].a = k /\ \A l \in (j+1)..Len(ms) : ms[l].a # k]

\* utils/hash stableStringify: keys sorted at every nesting level
RECURSIVE stableStringify(_)
stableStringify(text) ==
  IF IsObj(text)
  THEN LET ms == text[1].h
           F[n \in 0..Len(KeyOrder)] ==
             IF n = 0 THEN <<>>
             ELSE IF HasKey(ms, KeyOrder[n])
                  THEN F[n-1] \o <<Member(KeyOrder[n],
                                     stableStringify(LastOf(ms, KeyOrder[n]).h))>>
                  ELSE F[n-1]
       IN <<[a |-> "obj", h |-> F[Len(KeyOrder)]]>>
  ELSE text

\* JSON.parse: throws on text that is not JSON, otherwise the parsed value,
\* whose members keep the order of the text
JSONparse(text) == [threw |-> ~IsJson(text), val |-> text]

\* the JavaScript value of a JSON value
JsVal(v) == IF v[1].a = "str" THEN v[1].h
            ELSE IF v = JNull THEN Null
            ELSE v

\* parsed[key]
Get(parsed, k) ==
  IF IsObj(parsed) /\ HasKey(parsed[1].h, k)
  THEN JsVal(LastOf(parsed[1].h, k).h)
  ELSE Undef

----------------------------------------------------------------------------
(* Ed25519 keys and the runtime's crypto module *)

\* key pairs an operator can put into the environment
EnvKeyIds == {"A", "B"}

\* key pairs crypto.generateKeyPairSync can return
GenKeyIds == {"G1", "G2"}

KeyIds == EnvKeyIds \cup GenKeyIds

PemPkcs8(k) == <<[a |-> "pem-pkcs8", h |-> Lit(k)]>>

PemSpki(k) == <<[a |-> "pem-spki", h |-> Lit(k)]>>

DerPkcs8(k) == <<[a |-> "der-pkcs8", h |-> Lit(k)]>>

DerSpki(k) == <<[a |-> "der-spki", h |-> Lit(k)]>>

\* receiptKeys.js extractBase64FromPem: the body lines of a PEM block, which
\* are the base64 text of the DER encoding
extractBase64FromPem(pem) ==
  IF Len(pem) = 1 /\ pem[1].a = "pem-spki" THEN Base64(DerSpki(pem[1].h[1].a))
  ELSE IF Len(pem) = 1 /\ pem[1].a = "pem-pkcs8" THEN Base64(DerPkcs8(pem[1].h[1].a))
  ELSE pem

\* .replace(/\+/g,'-').replace(/\//g,'_').replace(/=/g,'')
ToBase64Url(b64) ==
  IF Len(b64) = 1 /\ b64[1].a = "b64" THEN Base64Url(b64[1].h) ELSE b64

\* receiptKeys.js generateKeyPair, for the pair k the runtime draws
generateKeyPair(k) ==
  [ publicKeyPem       |-> PemSpki(k),
    privateKeyPem      |-> PemPkcs8(k),
    publicKeyBase64    |-> extractBase64FromPem(PemSpki(k)),
    publicKeyBase64Url |-> ToBase64Url(extractBase64FromPem(PemSpki(k))),
    privateKeyBase64   |-> extractBase64FromPem(PemPkcs8(k)) ]

\* a string or Buffer handed to the crypto module as a private key is read
\* as PEM
ParsePrivate(x) ==
  IF Len(x) = 1 /\ x[1].a = "pem-pkcs8"
  THEN [threw |-> FALSE, k |-> x[1].h[1].a]
  ELSE [threw |-> TRUE, k |-> "none"]

\* a string or Buffer handed to the crypto module as a public key is read as
\* PEM (a PEM private key yields its public half); DER bytes and other bytes
\* are rejected
ParsePublic(x) ==
  IF Len(x) = 1 /\ x[1].a \in {"pem-spki", "pem-pkcs8"}
  THEN [threw |-> FALSE, k |-> x[1].h[1].a]
  ELSE [threw |-> TRUE, k |-> "none"]

\* the Ed25519 signature of data under key pair k
SigBytes(k, data) == <<[a |-> "ed25519", h |-> Lit(k) \o data]>>

\* crypto.sign(null, data, key)
cryptoSign(data, key) ==
  LET pk == ParsePrivate(key)
  IN [threw |-> pk.threw, val |-> SigBytes(pk.k, data)]

\* crypto.verify that accepts the signature of the data under any key pair
cryptoVerifyAnyKey(data, key, signature) ==
  LET pk == ParsePublic(key)
  IN [threw |-> pk.threw,
      val   |-> ~pk.threw /\ \E k \in KeyIds : signature = SigBytes(k, data)]

\* crypto.verify(null, data, key, signature): throws on a key it cannot
\* read, false on a signature that is not the one of data under the key
cryptoVerify(data, key, signature) ==
  LET pk == ParsePublic(key)
  IN [threw |-> pk.threw,
      val   |-> ~pk.threw /\ signature = SigBytes(pk.k, data)]

\* crypto.signSync(null, data, key): a TypeError where the crypto module has
\* no such function
cryptoSignSync(data, key) ==
  IF hasSignSync THEN cryptoSign(data, key)
  ELSE [threw |-> TRUE, val |-> Undef]

\* crypto.verifySync(null, data, key, signature)
cryptoVerifySync(data, key, signature) ==
  IF hasSignSync THEN cryptoVerify(data, key, signature)
  ELSE [threw |-> TRUE, val |-> FALSE]

\* receiptKeys.js signMessage
signMessage(message, privateKeyPem) ==
  IF ~Truthy(privateKeyPem) THEN [threw |-> TRUE, val |-> Undef]
  ELSE LET privateKey == ParsePrivate(privateKeyPem)
           messageBuffer == BufferFromHex(message)
           signature == cryptoSignSync(messageBuffer, privateKeyPem)
       IN IF privateKey.threw \/ signature.threw
          THEN [threw |-> TRUE, val |-> Undef]
          ELSE [threw |-> FALSE, val |-> Base64(signature.val)]

\* receiptKeys.js verifySignature
verifySignature(message, signatureBase64, publicKeyBase64Url) ==
  LET messageBuffer == BufferFromHex(message)
      signature == BufferFromBase64(signatureBase64)
      publicKeyBuffer == BufferFromBase64(publicKeyBase64Url)
      r == cryptoVerifySync(messageBuffer, publicKeyBuffer, signature)
  IN IF r.threw THEN [threw |-> TRUE, val |-> FALSE]
     ELSE [threw |-> FALSE, val |-> r.val]

\* receiptVerifier.controller.js verifyEd25519Signature
verifyEd25519Signature(messageHex, signatureBase64, publicKeyBase64) ==
  LET message == BufferFromHex(messageHex)
      signature == BufferFromBase64(signatureBase64)
      publicKey == BufferFromBase64(publicKeyBase64)
      r == cryptoVerify(message, publicKey, signature)
  IN IF r.threw THEN [threw |-> TRUE, val |-> FALSE]
     ELSE [threw |-> FALSE, val |-> r.val]

----------------------------------------------------------------------------
(* Key manager *)

NoKeys == [held |-> FALSE, privateKeyPem |-> Undef, publicKeyBase64Url |-> Undef,
           publicKeyPem |-> Undef, isValid |-> FALSE, isGenerated |-> FALSE]

\* the values of the two environment variables
Envs == [priv : {Undef, PemPkcs8("A")},
         pub  : {Undef, Base64Url(DerSpki("A")), Base64Url(PemSpki("A")),
                 Base64Url(PemSpki("B"))}]

\* loadOrGenerateKeys that does not look at the result of the test
\* verification
loadOrGenerateKeysUnchecked(g) ==
  LET privateKey == env.priv
      publicKey == env.pub
  IN IF Truthy(privateKey) /\ Truthy(publicKey)
     THEN LET testMessage == Lit("test")
              testSignature == cryptoSignSync(testMessage, privateKey)
              publicKeyBuffer == BufferFromBase64(publicKey)
              isValid == cryptoVerifySync(testMessage, publicKeyBuffer,
                                          testSignature.val)
          IN IF testSignature.threw \/ isValid.threw
             THEN [threw |-> TRUE, val |-> NoKeys]
             ELSE [threw |-> FALSE,
                   val |-> [held |-> TRUE, privateKeyPem |-> privateKey,
                            publicKeyBase64Url |-> publicKey,
                            publicKeyPem |-> Undef,
                            isValid |-> TRUE, isGenerated |-> FALSE]]
     ELSE LET keyPair == generateKeyPair(g)
          IN [threw |-> FALSE,
              val |-> [held |-> TRUE, privateKeyPem |-> keyPair.privateKeyPem,
                       publicKeyBase64Url |-> keyPair.publicKeyBase64Url,
                       publicKeyPem |-> keyPair.publicKeyPem,
                       isValid |-> FALSE, isGenerated |-> TRUE]]

\* receiptKeys.js loadOrGenerateKeys; g is the pair generateKeyPair would draw
loadOrGenerateKeys(g) ==
  LET privateKey == env.priv
      publicKey == env.pub
  IN IF Truthy(privateKey) /\ Truthy(publicKey)
     THEN LET testMessage == Lit("test")
              testSignature == cryptoSignSync(testMessage, privateKey)
              publicKeyBuffer == BufferFromBase64(publicKey)
              isValid == cryptoVerifySync(testMessage, publicKeyBuffer,
                                          testSignature.val)
          IN IF testSignature.threw \/ isValid.threw \/ ~isValid.val
             THEN [threw |-> TRUE, val |-> NoKeys]
             ELSE [threw |-> FALSE,
                   val |-> [held |-> TRUE, privateKeyPem |-> privateKey,
                            publicKeyBase64Url |-> publicKey,
                            publicKeyPem |-> Undef,
                            isValid |-> TRUE, isGenerated |-> FALSE]]
     ELSE LET keyPair == generateKeyPair(g)
          IN [threw |-> FALSE,
              val |-> [held |-> TRUE, privateKeyPem |-> keyPair.privateKeyPem,
                       publicKeyBase64Url |-> keyPair.publicKeyBase64Url,
                       publicKeyPem |-> keyPair.publicKeyPem,
                       isValid |-> FALSE, isGenerated |-> TRUE]]

\* receiptKeys.js getKeyInfo
getKeyInfo ==
  LET hasPrivateKey == Truthy(env.priv)
      hasPublicKey == Truthy(env.pub)
  IN IF hasPrivateKey /\ hasPublicKey
     THEN [available |-> TRUE, source |-> "environment"]
     ELSE [available |-> FALSE, source |-> "none"]

\* receiptKeys.js initializeReceiptKeys: both branches load or generate, and
\* an error is logged and thrown again
initializeReceiptKeys(g) ==
  IF ~getKeyInfo.available THEN loadOrGenerateKeys(g)
  ELSE loadOrGenerateKeys(g)

----------------------------------------------------------------------------
(* Receipts *)

ReceiptFields == <<"payload", "inputs_hash", "outputs_hash", "prev_hash",
                   "entry_hash", "ed25519_pubkey", "ed25519_sig", "policy_id",
                   "created_at", "timestamp">>

\* an object none of whose receipt fields is set
BlankReceipt == [f \in {ReceiptFields[j] : j \in 1..Len(ReceiptFields)} |-> Undef]

\* timestamps: ISO dates are tokens of kind "iso"
IsoDate(n) == <<[a |-> "iso", h |-> Lit(n)]>>

\* !isNaN(new Date(s).getTime())
IsDate(s) == Len(s) = 1 /\ s[1].a = "iso"

\* identifiers: UUIDs are tokens of kind "uuid"
Uuid(n) == <<[a |-> "uuid", h |-> Lit(n)]>>

\* the UUID regular expression of validatePayloadStructure
IsUuid(s) == Len(s) = 1 /\ s[1].a = "uuid"

\* typeof x === 'string'
IsJsString(x) == ~(Len(x) = 1 /\ x[1].a \in {"num", "obj", "#null", "#undefined"})

\* receipt.service.js createCanonicalPayload
createCanonicalPayload(data) ==
  JObj(<< Member("event_id", JStr(data.event_id)),
          Member("session_id", JStr(data.session_id)),
          Member("user_id", IF data.user_id = Undef THEN Undef ELSE JStr(data.user_id)),
          Member("model_vendor", JStr(data.model_vendor)),
          Member("model_name", IF data.model_name = Null THEN JNull ELSE JStr(data.model_name)),
          Member("timestamp", JStr(data.timestamp)),
          Member("prompt_length", JNum(Len(data.prompt))),
          Member("response_length", JNum(Len(data.response))),
          Member("prompt_hash", JStr(sha256Hex(data.prompt))),
          Member("response_hash", JStr(sha256Hex(data.response))),
          Member("metadata", OrElse(data.metadata, JObj(<<>>))),
          Member("trust_version", JStr(Lit("1.0"))),
          Member("compliance",
                 JObj(<< Member("consent_architecture", JTrue),
                         Member("inspection_mandate", JTrue),
                         Member("continuous_validation", JTrue),
                         Member("ethical_override", JFalse),
                         Member("right_to_disconnect", JTrue),
                         Member("moral_recognition", JTrue) >>)) >>)

\* a destructuring default applies to undefined only
Default(x, d) == IF x = Undef THEN d ELSE x

\* generateTrustReceipt without the test of receiptKeys at its head
generateTrustReceiptUnguarded(interactionData, options, now) ==
    LET event_id == interactionData.event_id
        session_id == interactionData.session_id
        user_id == interactionData.user_id
        prompt == interactionData.prompt
        response == interactionData.response
        metadata == Default(interactionData.metadata, JObj(<<>>))
        model_vendor == Default(interactionData.model_vendor, Lit("unknown"))
        model_name == Default(interactionData.model_name, Null)
        timestamp == Default(interactionData.timestamp, now)
    IN IF ~Truthy(event_id) \/ ~Truthy(session_id) \/ ~Truthy(prompt) \/ ~Truthy(response)
       THEN [threw |-> TRUE, msg |-> "Missing required fields", val |-> BlankReceipt]
       ELSE
         LET payload == createCanonicalPayload(
               [event_id |-> event_id, session_id |-> session_id,
                user_id |-> user_id, prompt |-> prompt, response |-> response,
                metadata |-> metadata, model_vendor |-> model_vendor,
                model_name |-> model_name, timestamp |-> timestamp])
             inputsHash == sha256Hex(prompt)
             outputsHash == sha256Hex(response)
             payloadHash == sha256Hex(stableStringify(payload))
             receipt == [BlankReceipt EXCEPT
               !.payload = stableStringify(payload),
               !.inputs_hash = inputsHash,
               !.outputs_hash = outputsHash,
               !.prev_hash = OrElse(options.prev_hash, Null),
               !.entry_hash = payloadHash,
               !.ed25519_pubkey = receiptKeys.publicKeyBase64Url,
               !.ed25519_sig = Null,
               !.policy_id = OrElse(options.policy_id, Lit("trust.receipt.v1")),
               !.created_at = timestamp]
             sig == signMessage(payloadHash, receiptKeys.privateKeyPem)
         IN IF Truthy(receiptKeys.privateKeyPem) /\ ~sig.threw
            THEN [threw |-> FALSE, msg |-> "",
                  val |-> [receipt EXCEPT !.ed25519_sig = sig.val]]
            ELSE [threw |-> FALSE, msg |-> "", val |-> receipt]

\* receipt.service.js generateTrustReceipt; now is what
\* new Date().toISOString() returns during the call
generateTrustReceipt(interactionData, options, now) ==
  IF ~receiptKeys.held
  THEN [threw |-> TRUE, msg |-> "Receipt service not initialized", val |-> BlankReceipt]
  ELSE
    LET event_id == interactionData.event_id
        session_id == interactionData.session_id
        user_id == interactionData.user_id
        prompt == interactionData.prompt
        response == interactionData.response
        metadata == Default(interactionData.metadata, JObj(<<>>))
        model_vendor == Default(interactionData.model_vendor, Lit("unknown"))
        model_name == Default(interactionData.model_name, Null)
        timestamp == Default(interactionData.timestamp, now)
    IN IF ~Truthy(event_id) \/ ~Truthy(session_id) \/ ~Truthy(prompt) \/ ~Truthy(response)
       THEN [threw |-> TRUE, msg |-> "Missing required fields", val |-> BlankReceipt]
       ELSE
         LET payload == createCanonicalPayload(
               [event_id |-> event_id, session_id |-> session_id,
                user_id |-> user_id, prompt |-> prompt, response |-> response,
                metadata |-> metadata, model_vendor |-> model_vendor,
                model_name |-> model_name, timestamp |-> timestamp])
             inputsHash == sha256Hex(prompt)
             outputsHash == sha256Hex(response)
             payloadHash == sha256Hex(stableStringify(payload))
             receipt == [BlankReceipt EXCEPT
               !.payload = stableStringify(payload),
               !.inputs_hash = inputsHash,
               !.outputs_hash = outputsHash,
               !.prev_hash = OrElse(options.prev_hash, Null),
               !.entry_hash = payloadHash,
               !.ed25519_pubkey = receiptKeys.publicKeyBase64Url,
               !.ed25519_sig = Null,
               !.policy_id = OrElse(options.policy_id, Lit("trust.receipt.v1")),
               !.created_at = timestamp]
             sig == signMessage(payloadHash, receiptKeys.privateKeyPem)
         IN IF Truthy(receiptKeys.privateKeyPem) /\ ~sig.threw
            THEN [threw |-> FALSE, msg |-> "",
                  val |-> [receipt EXCEPT !.ed25519_sig = sig.val]]
            ELSE [threw |-> FALSE, msg |-> "", val |-> receipt]

\* receipt.service.js ledgerEntryToReceipt (the service's conversion of a
\* stored event); now is what new Date().toISOString() returns during the call
ledgerEntryToReceiptOfService(ledgerEntry, now) ==
  IF ~receiptKeys.held
  THEN [threw |-> TRUE, msg |-> "Receipt service not initialized", val |-> BlankReceipt]
  ELSE
    LET ledger == ledgerEntry.ledger
        timestamp == ledgerEntry.timestamp
        payload == createCanonicalPayload(
          [event_id |-> ledgerEntry.event_id, session_id |-> ledgerEntry.session_id,
           user_id |-> ledgerEntry.user, prompt |-> ledgerEntry.prompt,
           response |-> ledgerEntry.response, metadata |-> ledgerEntry.metadata,
           model_vendor |-> ledgerEntry.model_vendor,
           model_name |-> ledgerEntry.model_name, timestamp |-> timestamp])
        payloadHash == sha256Hex(stableStringify(payload))
        inputsHash == sha256Hex(ledgerEntry.prompt)
        outputsHash == sha256Hex(ledgerEntry.response)
    IN [threw |-> FALSE, msg |-> "",
        val |-> [BlankReceipt EXCEPT
          !.payload = stableStringify(payload),
          !.inputs_hash = inputsHash,
          !.outputs_hash = outputsHash,
          !.prev_hash = OrElse(ledger.prev_hash, Null),
          !.entry_hash = OrElse(ledger.row_hash, payloadHash),
          !.ed25519_pubkey = receiptKeys.publicKeyBase64Url,
          !.ed25519_sig = OrElse(ledger.signature, Null),
          !.policy_id = Lit("ledger.v1"),
          !.created_at = OrElse(timestamp, now)]]

RECURSIVE batchLoopUnlinked(_, _, _, _, _, _)
RECURSIVE batchLoop(_, _, _, _, _, _)

\* the loop of generateBatchReceipts without prevHash = receipt.entry_hash
batchLoopUnlinked(interactions, options, now, i, prevHashArg, receipts) ==
  IF i > Len(interactions)
  THEN [threw |-> FALSE, msg |-> "", val |-> receipts]
  ELSE LET r == generateTrustReceipt(interactions[i],
                  [prev_hash |-> prevHashArg, policy_id |-> options.policy_id], now)
       IN IF r.threw
          THEN [threw |-> TRUE, msg |-> r.msg, val |-> <<>>]
          ELSE batchLoopUnlinked(interactions, options, now, i + 1,
                                 prevHashArg, Append(receipts, r.val))

\* receipt.service.js generateBatchReceipts, the loop from its i-th round on:
\* prevHashArg and receipts are the loop's prevHash and receipts
batchLoop(interactions, options, now, i, prevHashArg, receipts) ==
  IF i > Len(interactions)
  THEN [threw |-> FALSE, msg |-> "", val |-> receipts]
  ELSE LET r == generateTrustReceipt(interactions[i],
                  [prev_hash |-> prevHashArg, policy_id |-> options.policy_id], now)
       IN IF r.threw
          THEN [threw |-> TRUE, msg |-> r.msg, val |-> <<>>]
          ELSE batchLoop(interactions, options, now, i + 1,
                         r.val.entry_hash, Append(receipts, r.val))

\* receipt.service.js generateBatchReceipts: an error thrown by a call of
\* generateTrustReceipt ends the batch
generateBatchReceipts(interactions, options, now) ==
  IF ~receiptKeys.held
  THEN [threw |-> TRUE, msg |-> "Receipt service not initialized", val |-> <<>>]
  ELSE batchLoop(interactions, options, now, 1,
                 OrElse(options.prev_hash, Null), <<>>)

\* demo-receipt-verifier.js createHashChainReceipt, with the demo's fixed
\* inputs and outputs replaced by the event's
createHashChainReceipt(inputs, outputs, prevHashArg) ==
  LET inputsHash == sha256Hex(inputs)
      outputsHash == sha256Hex(outputs)
      entryHash == sha256Hex(Plus(Plus(OrElse(prevHashArg, EmptyStr), inputsHash), outputsHash))
  IN [BlankReceipt EXCEPT
        !.inputs_hash = inputsHash,
        !.outputs_hash = outputsHash,
        !.prev_hash = prevHashArg,
        !.entry_hash = entryHash,
        !.policy_id = Lit("hashchain.v1")]

----------------------------------------------------------------------------
(* Receipt verifier *)

Check(field, status, expected, actual) ==
  [field |-> field, status |-> status, expected |-> expected, actual |-> actual]

Warning(field, message) == [field |-> field, message |-> message]

\* receiptVerifier.controller.js validatePayloadStructure
validatePayloadStructure(payload) ==
  LET requiredFields == <<"event_id", "session_id", "timestamp">>
      absent == SelectSeq(requiredFields, LAMBDA f : ~Truthy(Get(payload, f)))
      eid == Get(payload, "event_id")
  IN [j \in 1..Len(absent) |-> Warning("payload", "Recommended field missing: " \o absent[j])]
     \o (IF Truthy(eid) /\ ~IsUuid(eid)
         THEN <<Warning("payload", "event_id should be a UUID")>> ELSE <<>>)

\* receiptVerifier.controller.js validateCommonFields
validateCommonFields(receipt) ==
  (IF Truthy(receipt.timestamp) /\ ~IsDate(receipt.timestamp)
   THEN <<Warning("timestamp", "Invalid timestamp format")>> ELSE <<>>)
  \o (IF Truthy(receipt.policy_id) /\ ~IsJsString(receipt.policy_id)
      THEN <<Warning("policy_id", "policy_id should be a string")>> ELSE <<>>)

\* verifyEd25519Receipt whose catch branch of the signature check records the
\* error and leaves result.valid as it is
verifyEd25519ReceiptErrorKeepsValid(receipt) ==
  LET required == <<"payload", "entry_hash", "ed25519_sig", "ed25519_pubkey">>
      missing == SelectSeq(required, LAMBDA f : ~Truthy(receipt[f]))
      parsed == JSONparse(receipt.payload)
      payloadHash == sha256Hex(stableStringify(parsed.val))
      hashCheck ==
        IF payloadHash # receipt.entry_hash
        THEN Check("entry_hash", "mismatch", payloadHash, receipt.entry_hash)
        ELSE Check("entry_hash", "valid", Undef, Undef)
      signatureValid == verifyEd25519Signature(receipt.entry_hash,
                            receipt.ed25519_sig, receipt.ed25519_pubkey)
      sigCheck ==
        IF signatureValid.threw THEN Check("ed25519_sig", "error", Undef, Undef)
        ELSE IF signatureValid.val THEN Check("ed25519_sig", "valid", Undef, Undef)
        ELSE Check("ed25519_sig", "invalid", Undef, Undef)
  IN IF missing # <<>>
     THEN [valid |-> FALSE,
           checks |-> [j \in 1..Len(missing) |-> Check(missing[j], "missing", Undef, Undef)],
           warnings |-> <<>>, digests |-> 0, sigs |-> 0]
     ELSE IF parsed.threw
     THEN [valid |-> FALSE,
           checks |-> <<Check("payload", "invalid", Undef, Undef)>>,
           warnings |-> <<>>, digests |-> 0, sigs |-> 0]
     ELSE [valid |-> hashCheck.status = "valid" /\ sigCheck.status # "invalid",
           checks |-> <<hashCheck, sigCheck>>,
           warnings |-> validatePayloadStructure(parsed.val),
           digests |-> 1, sigs |-> 1]

\* receiptVerifier.controller.js verifyEd25519Receipt; digests and sigs count
\* the digest computations and signature verifications it made
verifyEd25519Receipt(receipt) ==
  LET required == <<"payload", "entry_hash", "ed25519_sig", "ed25519_pubkey">>
      missing == SelectSeq(required, LAMBDA f : ~Truthy(receipt[f]))
      parsed == JSONparse(receipt.payload)
      payloadHash == sha256Hex(stableStringify(parsed.val))
      hashCheck ==
        IF payloadHash # receipt.entry_hash
        THEN Check("entry_hash", "mismatch", payloadHash, receipt.entry_hash)
        ELSE Check("entry_hash", "valid", Undef, Undef)
      signatureValid == verifyEd25519Signature(receipt.entry_hash,
                            receipt.ed25519_sig, receipt.ed25519_pubkey)
      sigCheck ==
        IF signatureValid.threw THEN Check("ed25519_sig", "error", Undef, Undef)
        ELSE IF signatureValid.val THEN Check("ed25519_sig", "valid", Undef, Undef)
        ELSE Check("ed25519_sig", "invalid", Undef, Undef)
  IN IF missing # <<>>
     THEN [valid |-> FALSE,
           checks |-> [j \in 1..Len(missing) |-> Check(missing[j], "missing", Undef, Undef)],
           warnings |-> <<>>, digests |-> 0, sigs |-> 0]
     ELSE IF parsed.threw
     THEN [valid |-> FALSE,
           checks |-> <<Check("payload", "invalid", Undef, Undef)>>,
           warnings |-> <<>>, digests |-> 0, sigs |-> 0]
     ELSE [valid |-> hashCheck.status = "valid" /\ sigCheck.status = "valid",
           checks |-> <<hashCheck, sigCheck>>,
           warnings |-> validatePayloadStructure(parsed.val),
           digests |-> 1, sigs |-> 1]

\* verifyHashChainReceipt that concatenates prev_hash as it is, so that null
\* contributes the text "null"
verifyHashChainReceiptNullText(receipt) ==
  LET required == <<"entry_hash", "inputs_hash", "outputs_hash">>
      missing == SelectSeq(required, LAMBDA f : ~Truthy(receipt[f]))
      expectedHash == sha256Hex(Plus(Plus(receipt.prev_hash,
                                          receipt.inputs_hash), receipt.outputs_hash))
  IN IF missing # <<>>
     THEN [valid |-> FALSE,
           checks |-> [j \in 1..Len(missing) |-> Check(missing[j], "missing", Undef, Undef)],
           warnings |-> <<>>, digests |-> 0, sigs |-> 0]
     ELSE IF expectedHash = receipt.entry_hash
     THEN [valid |-> TRUE,
           checks |-> <<Check("entry_hash", "valid", Undef, Undef)>>,
           warnings |-> <<>>, digests |-> 1, sigs |-> 0]
     ELSE [valid |-> FALSE,
           checks |-> <<Check("entry_hash", "mismatch", expectedHash, receipt.entry_hash)>>,
           warnings |-> <<>>, digests |-> 1, sigs |-> 0]

\* receiptVerifier.controller.js verifyHashChainReceipt
verifyHashChainReceipt(receipt) ==
  LET required == <<"entry_hash", "inputs_hash", "outputs_hash">>
      missing == SelectSeq(required, LAMBDA f : ~Truthy(receipt[f]))
      expectedHash == sha256Hex(Plus(Plus(OrElse(receipt.prev_hash, EmptyStr),
                                          receipt.inputs_hash), receipt.outputs_hash))
  IN IF missing # <<>>
     THEN [valid |-> FALSE,
           checks |-> [j \in 1..Len(missing) |-> Check(missing[j], "missing", Undef, Undef)],
           warnings |-> <<>>, digests |-> 0, sigs |-> 0]
     ELSE IF expectedHash = receipt.entry_hash
     THEN [valid |-> TRUE,
           checks |-> <<Check("entry_hash", "valid", Undef, Undef)>>,
           warnings |-> <<>>, digests |-> 1, sigs |-> 0]
     ELSE [valid |-> FALSE,
           checks |-> <<Check("entry_hash", "mismatch", expectedHash, receipt.entry_hash)>>,
           warnings |-> <<>>, digests |-> 1, sigs |-> 0]

NoResult == [valid |-> FALSE, checks |-> <<>>, warnings |-> <<>>,
             receipt_type |-> "null", digests |-> 0, sigs |-> 0]

\* verifyReceiptStructure whose first branch asks for the payload only
verifyReceiptStructurePayloadOnly(receipt) ==
  IF Truthy(receipt.payload)
  THEN LET r == verifyEd25519Receipt(receipt)
       IN [threw |-> FALSE, msg |-> "",
           result |-> [valid |-> r.valid, checks |-> r.checks,
                       warnings |-> r.warnings \o validateCommonFields(receipt),
                       receipt_type |-> "ed25519_signed",
                       digests |-> r.digests, sigs |-> r.sigs]]
  ELSE IF Truthy(receipt.entry_hash) /\ Truthy(receipt.inputs_hash) /\ Truthy(receipt.outputs_hash)
  THEN LET r == verifyHashChainReceipt(receipt)
       IN [threw |-> FALSE, msg |-> "",
           result |-> [valid |-> r.valid, checks |-> r.checks,
                       warnings |-> r.warnings \o validateCommonFields(receipt),
                       receipt_type |-> "hash_chain",
                       digests |-> r.digests, sigs |-> r.sigs]]
  ELSE [threw |-> TRUE, msg |-> "Unrecognized receipt format", result |-> NoResult]

\* receiptVerifier.controller.js verifyReceiptStructure
verifyReceiptStructure(receipt) ==
  IF Truthy(receipt.payload) /\ Truthy(receipt.ed25519_sig) /\ Truthy(receipt.ed25519_pubkey)
  THEN LET r == verifyEd25519Receipt(receipt)
       IN [threw |-> FALSE, msg |-> "",
           result |-> [valid |-> r.valid, checks |-> r.checks,
                       warnings |-> r.warnings \o validateCommonFields(receipt),
                       receipt_type |-> "ed25519_signed",
                       digests |-> r.digests, sigs |-> r.sigs]]
  ELSE IF Truthy(receipt.entry_hash) /\ Truthy(receipt.inputs_hash) /\ Truthy(receipt.outputs_hash)
  THEN LET r == verifyHashChainReceipt(receipt)
       IN [threw |-> FALSE, msg |-> "",
           result |-> [valid |-> r.valid, checks |-> r.checks,
                       warnings |-> r.warnings \o validateCommonFields(receipt),
                       receipt_type |-> "hash_chain",
                       digests |-> r.digests, sigs |-> r.sigs]]
  ELSE [threw |-> TRUE, msg |-> "Unrecognized receipt format", result |-> NoResult]

\* verifyReceipt that rejects the request when the verdict is not valid
verifyReceiptRejectsInvalid(hasReceipt, receipt) ==
  IF ~hasReceipt
  THEN [status |-> 400, success |-> FALSE, error |-> "Receipt object is required",
        data |-> NoResult]
  ELSE LET r == verifyReceiptStructure(receipt)
       IN IF r.threw
          THEN [status |-> 400, success |-> FALSE, error |-> r.msg, data |-> NoResult]
          ELSE IF ~r.result.valid
          THEN [status |-> 400, success |-> FALSE, error |-> "Invalid receipt",
                data |-> NoResult]
          ELSE [status |-> 200, success |-> TRUE, error |-> "", data |-> r.result]

\* receiptVerifier.controller.js verifyReceipt (POST /api/receipts/verify);
\* hasReceipt says whether req.body.receipt is set
verifyReceipt(hasReceipt, receipt) ==
  IF ~hasReceipt
  THEN [status |-> 400, success |-> FALSE, error |-> "Receipt object is required",
        data |-> NoResult]
  ELSE LET r == verifyReceiptStructure(receipt)
       IN IF r.threw
          THEN [status |-> 400, success |-> FALSE, error |-> r.msg, data |-> NoResult]
          ELSE [status |-> 200, success |-> TRUE, error |-> "", data |-> r.result]

----------------------------------------------------------------------------
(* Inputs *)

\* raw prompt / response pairs of the events
Contents == { <<Lit("ping"), Lit("pong")>>, <<Lit("ping2"), Lit("pong2")>> }

\* event descriptors handed to the builder; the last leaves the prompt out
Descriptors ==
  { [event_id |-> Uuid("1"), session_id |-> Lit("s1"), user_id |-> Undef,
     prompt |-> c[1], response |-> c[2], metadata |-> Undef,
     model_vendor |-> Undef, model_name |-> Undef, timestamp |-> t]
    : c \in Contents \cup { <<Undef, Lit("pong")>> },
      t \in {Undef, IsoDate("t0")} }

\* what new Date().toISOString() can return
Clock == {IsoDate("t1"), IsoDate("t2")}

NoOut == [status |-> 0]

\* the entry_hash of an earlier receipt of the session
PriorHash == sha256Hex(Lit("prior"))

NoProv == [origin |-> "none", tamper |-> "none", wasValid |-> FALSE, at |-> 0]

\* the fields an attacker rewrites
TamperFields == {"payload", "inputs_hash", "outputs_hash", "prev_hash"}

\* the members of a JSON object text in reverse order: other text, same object
Reordered(text) ==
  IF IsObj(text)
  THEN <<[a |-> "obj",
          h |-> [j \in 1..Len(text[1].h) |-> text[1].h[Len(text[1].h) + 1 - j]]]>>
  ELSE text

TamperValues(receipt, f) ==
  IF f = "payload"
  THEN { Lit("not valid json"), Reordered(receipt.payload),
         JObj(<<Member("prompt", JStr(Lit("test")))>>) }
  ELSE IF f = "prev_hash"
  THEN { sha256Hex(Lit("evil")), Null }
  ELSE { sha256Hex(Lit("evil")) }

\* the payload of the receipts the test suite and the demo sign themselves,
\* as JSON.stringify writes it
ClientPayload(c, ts) ==
  JObj(<< Member("event_id", JStr(Uuid("2"))),
          Member("session_id", JStr(Uuid("3"))),
          Member("timestamp", JStr(ts)),
          Member("model_vendor", JStr(Lit("openai"))),
          Member("model_name", JStr(Lit("gpt-4"))),
          Member("prompt", JStr(c[1])),
          Member("response", JStr(c[2])) >>)

\* the encodings in which a client attaches the public key of pair k:
\* the PEM text, the base64 of the DER bytes, the base64url of the DER bytes,
\* the base64url of the PEM text
PubKeyEncodings(k) ==
  { PemSpki(k), Base64(DerSpki(k)), Base64Url(DerSpki(k)), Base64Url(PemSpki(k)) }

\* a receipt signed outside the service with crypto.sign over
\* Buffer.from(entryHash, 'hex')
ClientSignedReceipt(c, ts, k, pub) ==
  LET payload == ClientPayload(c, ts)
      entryHash == sha256Hex(stableStringify(payload))
      signature == cryptoSign(BufferFromHex(entryHash), PemPkcs8(k))
  IN [BlankReceipt EXCEPT
        !.payload = payload,
        !.inputs_hash = sha256Hex(c[1]),
        !.outputs_hash = sha256Hex(c[2]),
        !.prev_hash = Null,
        !.entry_hash = entryHash,
        !.ed25519_pubkey = pub,
        !.ed25519_sig = Base64(signature.val),
        !.policy_id = Lit("test.v1")]

\* whether the verifier accepts the receipt
Accepted(receipt) ==
  LET r == verifyReceiptStructure(receipt) IN ~r.threw /\ r.result.valid

----------------------------------------------------------------------------
(* Operations on single receipts *)

auditIdle ==
  UNCHANGED <<store, pc, events, idx, prevHash, chainResults>>

\* receipt.service.js initializeService
InitializeService ==
  \E g \in GenKeyIds :
    LET r == initializeReceiptKeys(g)
    IN /\ pc = "idle"
       /\ prov.origin = "none"
       /\ receiptKeys' = IF r.threw THEN receiptKeys ELSE r.val
       /\ op' = "initializeService"
       /\ out' = [status |-> IF r.threw THEN 500 ELSE 200]
       /\ UNCHANGED <<TRUST_RECEIPTS, hasSignSync, env, rcpt, prov>>
       /\ auditIdle

\* a call of generateTrustReceipt, linked to a prior entry or to none
GenerateTrustReceipt ==
  \E d \in Descriptors, now \in Clock, prev \in {Undef, PriorHash} :
    LET r == generateTrustReceipt(d, [prev_hash |-> prev, policy_id |-> Undef], now)
    IN /\ pc = "idle"
       /\ prov.origin = "none"
       /\ op' = "generateTrustReceipt"
       /\ out' = [status |-> IF r.threw THEN 500 ELSE 200, error |-> r.msg,
                  interactionData |-> d, prev_hash |-> prev]
       /\ rcpt' = IF r.threw THEN rcpt ELSE r.val
       /\ prov' = IF r.threw THEN prov
                  ELSE [origin |-> "build", tamper |-> "none", wasValid |-> FALSE, at |-> 0]
       /\ UNCHANGED <<TRUST_RECEIPTS, hasSignSync, env, receiptKeys>>
       /\ auditIdle

\* generateTrustReceipt is called once more with the descriptor and the prior
\* hash of the call that has just returned; the clock may have moved on
GenerateAgain ==
  \E now \in Clock :
    LET r == generateTrustReceipt(out.interactionData,
                                  [prev_hash |-> out.prev_hash, policy_id |-> Undef], now)
    IN /\ pc = "idle"
       /\ op = "generateTrustReceipt"
       /\ out.status = 200
       /\ op' = "generateAgain"
       /\ out' = [status |-> IF r.threw THEN 500 ELSE 200, error |-> r.msg,
                  first |-> rcpt.entry_hash, second |-> r.val.entry_hash]
       /\ rcpt' = r.val
       /\ UNCHANGED <<TRUST_RECEIPTS, hasSignSync, env, receiptKeys, prov>>
       /\ auditIdle

\* the interactions handed to batch building: one with its own timestamp, one
\* without, one that leaves the prompt out
BatchDescriptors ==
  { d \in Descriptors :
      \/ d.prompt = Lit("ping") /\ d.timestamp # Undef
      \/ d.prompt = Lit("ping2") /\ d.timestamp = Undef
      \/ d.prompt = Undef /\ d.timestamp # Undef }

\* the lists of at most MaxBatch interactions
Batches ==
  UNION { [1..n -> BatchDescriptors] : n \in 0..MaxBatch }

\* a call of generateBatchReceipts, with a starting hash or without, made
\* once the service was loaded or initialized again
GenerateBatchReceipts ==
  \E interactions \in Batches, now \in {IsoDate("t1")}, start \in {Undef, PriorHash} :
    LET r == generateBatchReceipts(interactions,
                                   [prev_hash |-> start, policy_id |-> Undef], now)
    IN /\ pc = "idle"
       /\ prov.origin = "none"
       /\ op \in {"load", "initializeService"}
       /\ op' = "generateBatchReceipts"
       /\ out' = [status |-> IF r.threw THEN 500 ELSE 200, error |-> r.msg,
                  start |-> start, receipts |-> r.val]
       /\ UNCHANGED <<TRUST_RECEIPTS, hasSignSync, env, receiptKeys, rcpt, prov>>
       /\ auditIdle

\* receipt.service.js getServiceStatus
getServiceStatus ==
  LET keyInfo == [hasPrivateKeys |-> receiptKeys.held /\ Truthy(receiptKeys.privateKeyPem),
                  hasPublicKey |-> receiptKeys.held /\ Truthy(receiptKeys.publicKeyBase64Url),
                  publicKeyAvailable |-> Truthy(env.pub),
                  privateKeyAvailable |-> Truthy(env.priv)]
  IN [initialized |-> receiptKeys.held,
      keys |-> keyInfo,
      canSign |-> keyInfo.hasPrivateKeys,
      canVerify |-> keyInfo.hasPublicKey,
      mode |-> IF keyInfo.privateKeyAvailable THEN "production" ELSE "development"]

\* a call of getServiceStatus
GetServiceStatus ==
  /\ pc = "idle"
  /\ prov.origin = "none"
  /\ op' = "getServiceStatus"
  /\ out' = [status |-> 200, data |-> getServiceStatus]
  /\ UNCHANGED <<TRUST_RECEIPTS, hasSignSync, env, receiptKeys, rcpt, prov>>
  /\ auditIdle

\* receiptVerifier.controller.js getPublicKey
getPublicKey ==
  LET publicKeyBase64 == env.pub
  IN IF ~Truthy(publicKeyBase64)
     THEN [status |-> 404, success |-> FALSE,
           error |-> "Public key not configured", body |-> Undef]
     ELSE [status |-> 200, success |-> TRUE, error |-> "", body |-> publicKeyBase64]

\* GET of the public key, before a receipt was built or right after one was
GetPublicKey ==
  /\ pc = "idle"
  /\ \/ prov.origin = "none" /\ op \in {"load", "initializeService"}
     \/ prov.origin = "build" /\ op = "generateTrustReceipt" /\ out.status = 200
  /\ op' = "getPublicKey"
  /\ out' = getPublicKey
  /\ UNCHANGED <<TRUST_RECEIPTS, hasSignSync, env, receiptKeys, rcpt, prov>>
  /\ auditIdle

\* a call of createHashChainReceipt, linked to a prior entry or to none
CreateHashChainReceipt ==
  \E c \in Contents, prev \in {Null, PriorHash} :
    /\ pc = "idle"
    /\ prov.origin = "none"
    /\ op' = "createHashChainReceipt"
    /\ out' = [status |-> 200]
    /\ rcpt' = createHashChainReceipt(c[1], c[2], prev)
    /\ prov' = [origin |-> "hashchain", tamper |-> "none", wasValid |-> FALSE, at |-> 0]
    /\ UNCHANGED <<TRUST_RECEIPTS, hasSignSync, env, receiptKeys>>
    /\ auditIdle

\* a client signs a receipt itself
ClientSigns ==
  \E c \in {<<Lit("ping"), Lit("pong")>>},
     ts \in {IsoDate("t0"), Lit("invalid-timestamp")}, kp \in EnvKeyIds :
   \E pub \in PubKeyEncodings(kp) :
    /\ pc = "idle"
    /\ prov.origin = "none"
    /\ op' = "clientSigns"
    /\ out' = [status |-> 200]
    /\ rcpt' = ClientSignedReceipt(c, ts, "A", pub)
    /\ prov' = [origin |-> "client", tamper |-> "none", wasValid |-> FALSE, at |-> 0]
    /\ UNCHANGED <<TRUST_RECEIPTS, hasSignSync, env, receiptKeys>>
    /\ auditIdle

\* one of payload, inputs_hash, outputs_hash, prev_hash of the receipt in
\* hand is replaced by another value
Tamper ==
  \E f \in TamperFields :
   \E v \in TamperValues(rcpt, f) :
    /\ pc = "idle"
    /\ prov.origin # "none"
    /\ prov.tamper = "none"
    /\ rcpt[f] # Undef
    /\ v # rcpt[f]
    /\ op' = "tamper"
    /\ out' = [status |-> 200]
    /\ rcpt' = [rcpt EXCEPT ![f] = v]
    /\ prov' = [prov EXCEPT !.tamper = f, !.wasValid = Accepted(rcpt)]
    /\ UNCHANGED <<TRUST_RECEIPTS, hasSignSync, env, receiptKeys>>
    /\ auditIdle

\* fields of the receipt in hand are left out of the request
Strip ==
  \E S \in SUBSET {"payload", "ed25519_sig", "ed25519_pubkey", "entry_hash",
                   "inputs_hash", "outputs_hash"} :
    /\ pc = "idle"
    /\ prov.origin # "none"
    /\ prov.tamper = "none"
    /\ S # {}
    /\ op' = "strip"
    /\ out' = [status |-> 200]
    /\ rcpt' = [f \in DOMAIN rcpt |-> IF f \in S THEN Undef ELSE rcpt[f]]
    /\ prov' = [prov EXCEPT !.tamper = "strip", !.wasValid = Accepted(rcpt)]
    /\ UNCHANGED <<TRUST_RECEIPTS, hasSignSync, env, receiptKeys>>
    /\ auditIdle

\* the advisory fields of the receipt in hand are set by the client
Annotate ==
  \E a \in { <<Lit("invalid-timestamp"), JNum(7)>>,
               <<IsoDate("t0"), Lit("custom.v1")>> } :
    /\ pc = "idle"
    /\ prov.origin # "none"
    /\ prov.tamper = "none"
    /\ op' = "annotate"
    /\ out' = [status |-> 200]
    /\ rcpt' = [rcpt EXCEPT !.timestamp = a[1], !.policy_id = a[2]]
    /\ prov' = [prov EXCEPT !.tamper = "annotate", !.wasValid = Accepted(rcpt)]
    /\ UNCHANGED <<TRUST_RECEIPTS, hasSignSync, env, receiptKeys>>
    /\ auditIdle

\* the public key attached to the receipt in hand is replaced by the public
\* key of another key pair
ReplacePublicKey ==
  \E k \in {"B", "G1"} :
   \E pub \in {Base64Url(PemSpki(k)), Base64Url(DerSpki(k))} :
    /\ pc = "idle"
    /\ prov.origin # "none"
    /\ prov.tamper = "none"
    /\ Truthy(rcpt.ed25519_pubkey)
    /\ pub # rcpt.ed25519_pubkey
    /\ op' = "replacePublicKey"
    /\ out' = [status |-> 200]
    /\ rcpt' = [rcpt EXCEPT !.ed25519_pubkey = pub]
    /\ prov' = [prov EXCEPT !.tamper = "pubkey", !.wasValid = Accepted(rcpt)]
    /\ UNCHANGED <<TRUST_RECEIPTS, hasSignSync, env, receiptKeys>>
    /\ auditIdle

\* the signature of the receipt in hand is replaced: by text that is no
\* signature, by the signature of another pair over the same entry_hash, or
\* by the signature of the same pair over another digest
ReplaceSignature ==
  \E v \in { Lit("invalid_signature"),
             Base64(SigBytes("B", BufferFromHex(rcpt.entry_hash))),
             Base64(SigBytes("A", BufferFromHex(sha256Hex(Lit("m"))))) } :
    /\ pc = "idle"
    /\ prov.origin # "none"
    /\ prov.tamper = "none"
    /\ Truthy(rcpt.ed25519_sig)
    /\ v # rcpt.ed25519_sig
    /\ op' = "replaceSignature"
    /\ out' = [status |-> 200]
    /\ rcpt' = [rcpt EXCEPT !.ed25519_sig = v]
    /\ prov' = [prov EXCEPT !.tamper = "sig", !.wasValid = Accepted(rcpt)]
    /\ UNCHANGED <<TRUST_RECEIPTS, hasSignSync, env, receiptKeys>>
    /\ auditIdle

\* POST /api/receipts/verify with the receipt in hand, or with an empty body
VerifyReceipt ==
  \E hasReceipt \in BOOLEAN :
    /\ pc = "idle"
    /\ op' = IF hasReceipt THEN "verifyReceipt" ELSE "verifyReceiptNoBody"
    /\ out' = verifyReceipt(hasReceipt, rcpt)
    /\ UNCHANGED <<TRUST_RECEIPTS, hasSignSync, env, receiptKeys, rcpt, prov>>
    /\ auditIdle

\* the caller lets go of the receipt in hand
Discard ==
  /\ pc = "idle"
  /\ prov.origin # "none"
  /\ op' = "discard"
  /\ out' = NoOut
  /\ rcpt' = BlankReceipt
  /\ prov' = NoProv
  /\ UNCHANGED <<TRUST_RECEIPTS, hasSignSync, env, receiptKeys>>
  /\ auditIdle

\* digests, signatures and keys handed to the signature primitives
SigMessages == { sha256Hex(Lit("m")), Lit("invalid_hash") }

SigInputs ==
  { Base64(SigBytes("A", BufferFromHex(sha256Hex(Lit("m"))))),
    Lit("invalid_signature") }

KeyInputs == PubKeyEncodings("A") \cup { Base64Url(PemSpki("B")), Lit("not-a-key") }

\* Buffer.from(s): the bytes of the text itself
BufferFromText(s) == <<[a |-> "utf8", h |-> s]>>

\* a digest is signed with signMessage under the private key of a pair the
\* key manager generated and the signature is handed to one of the two
\* verification primitives together with the public key of the same pair, in
\* the key manager's encoding or as base64url of the PEM text
SignThenVerify ==
  \E which \in {"verifySignature", "verifyEd25519Signature"},
     m \in {sha256Hex(Lit("m"))}, k \in GenKeyIds :
   \E pub \in {generateKeyPair(k).publicKeyBase64Url, Base64Url(PemSpki(k))} :
    LET s == signMessage(m, generateKeyPair(k).privateKeyPem)
        r == IF which = "verifySignature" THEN verifySignature(m, s.val, pub)
             ELSE verifyEd25519Signature(m, s.val, pub)
    IN /\ pc = "idle"
       /\ prov.origin = "none"
       /\ op' = "signThenVerify"
       /\ out' = [status |-> 200, message |-> m, pair |-> k, pubkey |-> pub,
                  signThrew |-> s.threw, signature |-> s.val,
                  threw |-> s.threw \/ r.threw,
                  val |-> ~s.threw /\ ~r.threw /\ r.val]
       /\ UNCHANGED <<TRUST_RECEIPTS, hasSignSync, env, receiptKeys, rcpt, prov>>
       /\ auditIdle

\* a direct call of one of the two signature verification primitives
VerifySignature ==
  \E which \in {"verifySignature", "verifyEd25519Signature"},
     m \in SigMessages, s \in SigInputs, k \in KeyInputs :
    LET r == IF which = "verifySignature" THEN verifySignature(m, s, k)
             ELSE verifyEd25519Signature(m, s, k)
    IN /\ pc = "idle"
       /\ prov.origin = "none"
       /\ op' = which
       /\ out' = [status |-> 200, threw |-> r.threw, val |-> r.val]
       /\ UNCHANGED <<TRUST_RECEIPTS, hasSignSync, env, receiptKeys, rcpt, prov>>
       /\ auditIdle

----------------------------------------------------------------------------
(* Stored events and the session chain audit *)

\* the JSON value of a string, null or undefined
JVal(x) == IF x = Undef THEN Undef ELSE IF x = Null THEN JNull ELSE JStr(x)

\* receiptVerifier.controller.js ledgerEntryToReceipt
ledgerEntryToReceipt(event) ==
  LET canonical ==
        JObj(<< Member("event_id", JVal(event.event_id)),
                Member("session_id", JVal(event.session_id)),
                Member("user", JVal(event.user)),
                Member("model_vendor", JVal(event.model_vendor)),
                Member("model_name", JVal(event.model_name)),
                Member("timestamp", JVal(event.timestamp)),
                Member("prompt", JVal(event.prompt)),
                Member("response", JVal(event.response)),
                Member("metadata", event.metadata),
                Member("analysis", JVal(OrElse(event.analysis, Null))),
                Member("prev_hash", JVal(OrElse(event.ledger.prev_hash, Null))) >>)
      payload == stableStringify(canonical)
      inputsHash == sha256Hex(OrElse(event.prompt, EmptyStr))
      outputsHash == sha256Hex(OrElse(event.response, EmptyStr))
  IN [BlankReceipt EXCEPT
        !.payload = payload,
        !.inputs_hash = inputsHash,
        !.outputs_hash = outputsHash,
        !.prev_hash = OrElse(event.ledger.prev_hash, Null),
        !.entry_hash = OrElse(event.ledger.row_hash, EmptyStr),
        !.ed25519_pubkey = OrElse(env.pub, Null),
        !.ed25519_sig = OrElse(event.ledger.signature, Null),
        !.policy_id = Lit("ledger.v1")]

\* the document under which a receipt of the session is persisted together
\* with the raw prompt and response it was built from
EventOf(n, c, receipt) ==
  [event_id |-> Uuid("1"), session_id |-> Lit("s1"), user |-> Undef,
   model_vendor |-> Lit("openai"), model_name |-> Lit("gpt-4"),
   timestamp |-> IsoDate("t0"), position |-> n,
   prompt |-> c[1], response |-> c[2], metadata |-> Undef, analysis |-> Undef,
   ledger |-> [prev_hash |-> receipt.prev_hash, row_hash |-> receipt.entry_hash,
               signature |-> receipt.ed25519_sig]]

\* the raw content of the n-th event of the session
ContentAt(n) == IF n % 2 = 1 THEN <<Lit("ping"), Lit("pong")>>
                ELSE <<Lit("ping2"), Lit("pong2")>>

\* stored events handed to the service's conversion: one of a chain-only
\* receipt, one of a signed receipt, one that has no ledger hashes yet
LedgerEntries ==
  LET c == <<Lit("ping"), Lit("pong")>>
      chained == createHashChainReceipt(c[1], c[2], Null)
      signed == ClientSignedReceipt(c, IsoDate("t0"), "A", Base64Url(PemSpki("A")))
  IN { EventOf(1, c, chained),
       EventOf(1, c, signed),
       EventOf(1, c, BlankReceipt) }

\* a call of the service's ledgerEntryToReceipt
ConvertLedgerEntry ==
  \E e \in LedgerEntries, now \in Clock :
    LET r == ledgerEntryToReceiptOfService(e, now)
    IN /\ pc = "idle"
       /\ prov.origin = "none"
       /\ op' = "ledgerEntryToReceipt"
       /\ out' = [status |-> IF r.threw THEN 500 ELSE 200, error |-> r.msg]
       /\ rcpt' = IF r.threw THEN rcpt ELSE r.val
       /\ prov' = IF r.threw THEN prov
                  ELSE [origin |-> "convert", tamper |-> "none", wasValid |-> FALSE, at |-> 0]
       /\ UNCHANGED <<TRUST_RECEIPTS, hasSignSync, env, receiptKeys>>
       /\ auditIdle

\* the entry_hash of the last stored event, or none
LastRowHash == IF store = <<>> THEN Null ELSE store[Len(store)].ledger.row_hash

\* the locals of a finished verifySessionChain call no longer exist
auditLocalsGone ==
  /\ events' = <<>>
  /\ idx' = 0
  /\ prevHash' = Null
  /\ chainResults' = <<>>

SessionProv == [origin |-> "session", tamper |-> "none", wasValid |-> FALSE, at |-> 0]

\* the next receipt of the session is built on its predecessor's entry_hash
\* (the first on none) and persisted
AppendReceipt ==
  \E builder \in {"createHashChainReceipt", "generateTrustReceipt"} :
    LET n == Len(store) + 1
        c == ContentAt(n)
        d == [event_id |-> Uuid("1"), session_id |-> Lit("s1"), user_id |-> Undef,
              prompt |-> c[1], response |-> c[2], metadata |-> Undef,
              model_vendor |-> Undef, model_name |-> Undef,
              timestamp |-> IsoDate("t0")]
        built == generateTrustReceipt(d, [prev_hash |-> LastRowHash,
                                          policy_id |-> Undef], IsoDate("t1"))
        receipt == IF builder = "createHashChainReceipt"
                   THEN createHashChainReceipt(c[1], c[2], LastRowHash)
                   ELSE built.val
    IN /\ pc = "idle"
       /\ Len(store) < MaxChain
       /\ prov.tamper = "none"
       /\ prov.origin \in {"none", "session"}
       /\ builder = "generateTrustReceipt" => ~built.threw
       /\ store' = Append(store, EventOf(n, c, receipt))
       /\ prov' = SessionProv
       /\ op' = "appendReceipt"
       /\ out' = NoOut
       /\ auditLocalsGone
       /\ UNCHANGED <<TRUST_RECEIPTS, hasSignSync, env, receiptKeys, rcpt, pc>>

\* the shapes of a document of the session that was written by other code
InsertKinds == {"linked", "signed", "badsig", "badprev", "badrow"}

\* a document whose row_hash follows from the audit's running hash is stored,
\* or one that deviates from it in one ledger field
InsertEvent ==
  \E kind \in InsertKinds :
    LET n == Len(store) + 1
        c == ContentAt(n)
        row == sha256Hex(Plus(Plus(LastRowHash, sha256Hex(c[1])), sha256Hex(c[2])))
        receipt == [BlankReceipt EXCEPT
          !.prev_hash = IF kind = "badprev" THEN sha256Hex(Lit("evil")) ELSE LastRowHash,
          !.entry_hash = IF kind = "badrow" THEN sha256Hex(Lit("evil")) ELSE row,
          !.ed25519_sig =
             IF kind = "signed"
             THEN Base64(cryptoSign(BufferFromHex(row), PemPkcs8("A")).val)
             ELSE IF kind = "badsig" THEN Lit("invalid_signature")
             ELSE Null]
    IN /\ pc = "idle"
       /\ Len(store) < MaxChain
       /\ prov.tamper = "none"
       /\ prov.origin \in {"none", "session", "inserted"}
       /\ store' = Append(store, EventOf(n, c, receipt))
       /\ prov' = [SessionProv EXCEPT !.origin = "inserted"]
       /\ op' = "insertEvent"
       /\ out' = NoOut
       /\ auditLocalsGone
       /\ UNCHANGED <<TRUST_RECEIPTS, hasSignSync, env, receiptKeys, rcpt, pc>>

\* two adjacent documents of a built session change places
SwapAdjacent ==
  \E j \in 1..(Len(store) - 1) :
    /\ pc = "idle"
    /\ prov.origin = "session"
    /\ prov.tamper = "none"
    /\ store' = [store EXCEPT ![j] = store[j+1], ![j+1] = store[j]]
    /\ prov' = [prov EXCEPT !.tamper = "swap", !.at = j - 1]
    /\ op' = "swapAdjacent"
    /\ out' = NoOut
    /\ auditLocalsGone
    /\ UNCHANGED <<TRUST_RECEIPTS, hasSignSync, env, receiptKeys, rcpt, pc>>

\* the stored prev_hash of one document of a built session is overwritten
CorruptPrevHash ==
  \E j \in 1..Len(store) :
    /\ pc = "idle"
    /\ prov.origin = "session"
    /\ prov.tamper = "none"
    /\ store' = [store EXCEPT ![j].ledger.prev_hash = sha256Hex(Lit("evil"))]
    /\ prov' = [prov EXCEPT !.tamper = "prev_hash", !.at = j - 1]
    /\ op' = "corruptPrevHash"
    /\ out' = NoOut
    /\ auditLocalsGone
    /\ UNCHANGED <<TRUST_RECEIPTS, hasSignSync, env, receiptKeys, rcpt, pc>>

\* one pass through the body of the loop of verifySessionChain for events[i]
AuditEntry(event, i, prev) ==
  LET receipt == ledgerEntryToReceipt(event)
      expectedHash == sha256Hex(Plus(Plus(prev, receipt.inputs_hash), receipt.outputs_hash))
      hashValid == receipt.entry_hash = expectedHash
      checked == Truthy(receipt.ed25519_sig) /\ Truthy(receipt.ed25519_pubkey)
      sig == verifyEd25519Signature(receipt.entry_hash, receipt.ed25519_sig,
                                    receipt.ed25519_pubkey)
  IN [threw |-> checked /\ sig.threw,
      result |-> [index |-> i, event_id |-> event.event_id,
                  hash_valid |-> hashValid,
                  signature_valid |-> IF ~checked THEN "null"
                                      ELSE IF sig.val THEN "true" ELSE "false",
                  expected_hash |-> expectedHash,
                  actual_hash |-> receipt.entry_hash,
                  prev_hash |-> prev],
      entry_hash |-> receipt.entry_hash]

\* the answer with count and total_events taken from the results
AuditDataCountsResults(evs, results) ==
  [valid |-> \A j \in 1..Len(results) :
               results[j].hash_valid /\ results[j].signature_valid \in {"null", "true"},
   count |-> Len(results),
   results |-> results,
   summary |->
     [total_events |-> Len(results),
      hash_chain_valid |-> \A j \in 1..Len(results) : results[j].hash_valid,
      signatures_valid |-> Len(SelectSeq(results, LAMBDA r : r.signature_valid = "true")),
      signatures_invalid |-> Len(SelectSeq(results, LAMBDA r : r.signature_valid = "false")),
      signatures_unchecked |-> Len(SelectSeq(results, LAMBDA r : r.signature_valid = "null"))]]

\* the body of the answer of verifySessionChain
AuditData(evs, results) ==
  [valid |-> \A j \in 1..Len(results) :
               results[j].hash_valid /\ results[j].signature_valid \in {"null", "true"},
   count |-> Len(evs),
   results |-> results,
   summary |->
     [total_events |-> Len(evs),
      hash_chain_valid |-> \A j \in 1..Len(results) : results[j].hash_valid,
      signatures_valid |-> Len(SelectSeq(results, LAMBDA r : r.signature_valid = "true")),
      signatures_invalid |-> Len(SelectSeq(results, LAMBDA r : r.signature_valid = "false")),
      signatures_unchecked |-> Len(SelectSeq(results, LAMBDA r : r.signature_valid = "null"))]]

EmptyAuditData ==
  [valid |-> TRUE, count |-> 0, results |-> <<>>,
   summary |-> [total_events |-> 0, hash_chain_valid |-> TRUE, signatures_valid |-> 0,
                signatures_invalid |-> 0, signatures_unchecked |-> 0]]

\* verifySessionChain up to the loop: the request is rejected without a
\* session_id, the events are fetched, and an empty session is answered
AuditStart ==
  \E hasSessionId \in BOOLEAN :
    /\ pc = "idle"
    /\ op' = IF hasSessionId THEN "verifySessionChain" ELSE "verifySessionChainNoId"
    /\ IF ~hasSessionId
       THEN /\ out' = [status |-> 400, success |-> FALSE, error |-> "session_id is required",
                       data |-> EmptyAuditData]
            /\ auditLocalsGone
            /\ pc' = pc
       ELSE /\ events' = store
            /\ idx' = 0
            /\ prevHash' = Null
            /\ chainResults' = <<>>
            /\ IF Len(store) = 0
               THEN /\ out' = [status |-> 200, success |-> TRUE, error |-> "",
                               data |-> EmptyAuditData]
                    /\ pc' = "idle"
               ELSE /\ out' = NoOut
                    /\ pc' = "loop"
    /\ UNCHANGED <<TRUST_RECEIPTS, hasSignSync, env, receiptKeys, rcpt, prov, store>>

\* verifySessionChain, one iteration of the loop
AuditStep ==
  /\ pc = "loop"
  /\ idx < Len(events)
  /\ LET e == AuditEntry(events[idx + 1], idx, prevHash)
     IN IF e.threw
        THEN /\ out' = [status |-> 400, success |-> FALSE,
                        error |-> "Signature verification failed",
                        data |-> EmptyAuditData]
             /\ pc' = "idle"
             /\ UNCHANGED <<idx, prevHash, chainResults>>
        ELSE /\ chainResults' = Append(chainResults, e.result)
             /\ prevHash' = e.entry_hash
             /\ IF ~e.result.hash_valid
                THEN pc' = "respond" /\ idx' = idx
                ELSE /\ idx' = idx + 1
                     /\ pc' = IF idx + 1 < Len(events) THEN "loop" ELSE "respond"
             /\ out' = out
  /\ UNCHANGED <<TRUST_RECEIPTS, hasSignSync, env, receiptKeys, rcpt, prov, op, store, events>>

\* verifySessionChain after the loop
AuditRespond ==
  /\ pc = "respond"
  /\ out' = [status |-> 200, success |-> TRUE, error |-> "",
             data |-> AuditData(events, chainResults)]
  /\ pc' = "idle"
  /\ UNCHANGED <<TRUST_RECEIPTS, hasSignSync, env, receiptKeys, rcpt, prov, op, store, events,
                 idx, prevHash, chainResults>>

\* the session is dropped
ClearSession ==
  /\ pc = "idle"
  /\ store # <<>>
  /\ store' = <<>>
  /\ prov' = NoProv
  /\ op' = "clearSession"
  /\ out' = NoOut
  /\ auditLocalsGone
  /\ UNCHANGED <<TRUST_RECEIPTS, hasSignSync, env, receiptKeys, rcpt, pc>>

----------------------------------------------------------------------------
(* Specifications of the single-receipt operations *)

\* the state after receipt.service.js was loaded: initializeService has run
\* once, and a failure was logged and swallowed
Init ==
  /\ hasSignSync \in BOOLEAN
  /\ env \in Envs
  /\ \E g \in GenKeyIds :
       receiptKeys = (IF initializeReceiptKeys(g).threw THEN NoKeys
                      ELSE initializeReceiptKeys(g).val)
  /\ rcpt = BlankReceipt
  /\ prov = NoProv
  /\ op = "load"
  /\ out = NoOut
  /\ store = <<>>
  /\ pc = "idle"
  /\ events = <<>>
  /\ idx = 0
  /\ prevHash = Null
  /\ chainResults = <<>>
  /\ TRUST_RECEIPTS = <<>>

\* the receipt service in every key configuration
Next ==
  \/ InitializeService
  \/ GenerateTrustReceipt
  \/ GenerateAgain
  \/ ConvertLedgerEntry
  \/ CreateHashChainReceipt
  \/ Tamper
  \/ VerifyReceipt
  \/ Discard

Spec == Init /\ [][Next]_vars

\* the same state in a process without configured keys
InitDev == Init /\ env = [priv |-> Undef, pub |-> Undef]

\* the verifier on every receipt a caller can submit
NextVerify ==
  \/ GenerateTrustReceipt
  \/ CreateHashChainReceipt
  \/ ClientSigns
  \/ Tamper
  \/ Strip
  \/ Annotate
  \/ ReplacePublicKey
  \/ ReplaceSignature
  \/ VerifyReceipt
  \/ VerifySignature
  \/ SignThenVerify
  \/ Discard

SpecVerify == InitDev /\ [][NextVerify]_vars

\* the receipt service's builders and its conversion in every key
\* configuration
NextBatch ==
  \/ InitializeService
  \/ GenerateTrustReceipt
  \/ GenerateBatchReceipts
  \/ ConvertLedgerEntry
  \/ GetServiceStatus
  \/ GetPublicKey
  \/ Discard

SpecBatch == Init /\ [][NextBatch]_vars

----------------------------------------------------------------------------
(* trust-ledger-demo.js: the standalone demo server *)

\* evt_${Date.now()}_${random}: the millisecond clock and nine random
\* base-36 digits, one value per request
EvtId(n) == <<[a |-> "evt", h |-> [j \in 1..n |-> [a |-> "1", h |-> <<>>]]]>>

DemoEventIds == {EvtId(n) : n \in 1..(MaxReceipts + 1)}

DemoClock == {IsoDate("t1"), IsoDate("t2")}

ZeroHash == Lit("0000000000000000000000000000000000000000000000000000000000000000")

\* the object both generateTrustReceipt and verifyTrustReceipt hash
demoReceiptData(eventId, timestamp, contentHash, previousHash, data) ==
  JObj(<<Member("eventId", JStr(eventId)),
         Member("timestamp", JStr(timestamp)),
         Member("contentHash", JStr(contentHash)),
         Member("previousHash", JStr(previousHash)),
         Member("data", data)>>)

\* trust-ledger-demo.js generateTrustReceipt(data), before TRUST_RECEIPTS.set
demoGenerateTrustReceipt(receipts, data, eventId, now) ==
  LET contentHash == sha256Hex(data)
      previousHash == IF Len(receipts) > 0
                      THEN receipts[Len(receipts)].contentHash
                      ELSE ZeroHash
  IN [eventId |-> eventId,
      timestamp |-> now,
      contentHash |-> contentHash,
      previousHash |-> previousHash,
      data |-> data,
      signature |-> sha256Hex(demoReceiptData(eventId, now, contentHash,
                                              previousHash, data)),
      verificationUrl |-> Plus(Lit("/api/trust/verify/"), eventId)]

\* Map.prototype.set: an existing key keeps its place, a new one goes last
MapSet(receipts, receipt) ==
  IF \E j \in 1..Len(receipts) : receipts[j].eventId = receipt.eventId
  THEN [j \in 1..Len(receipts) |->
          IF receipts[j].eventId = receipt.eventId THEN receipt
          ELSE receipts[j]]
  ELSE Append(receipts, receipt)

MapHas(receipts, eventId) ==
  \E j \in 1..Len(receipts) : receipts[j].eventId = eventId

MapGet(receipts, eventId) ==
  receipts[CHOOSE j \in 1..Len(receipts) : receipts[j].eventId = eventId]

verificationDetails(receipt, isValid, now) ==
  [contentIntegrity |-> IF isValid THEN "VERIFIED" ELSE "FAILED",
   signatureValid |-> isValid,
   chainIntegrity |-> "VERIFIED",
   auditTrail |-> [created |-> receipt.timestamp,
                   verified |-> now,
                   eventId |-> receipt.eventId]]

verifyTrustReceipt(receipts, eventId, now) ==
  IF ~MapHas(receipts, eventId)
  THEN [valid |-> FALSE, error |-> "Receipt not found"]
  ELSE LET receipt == MapGet(receipts, eventId)
           expectedHash == sha256Hex(demoReceiptData(receipt.eventId,
                             receipt.timestamp, receipt.contentHash,
                             receipt.previousHash, receipt.data))
           isValid == receipt.signature = expectedHash
       IN [isValid |-> isValid,
           receipt |-> receipt,
           verificationDetails |-> verificationDetails(receipt, isValid, now)]

\* !obj[k] of a boolean property: an object without the key reads undefined
NotProp(obj, k) == IF k \in DOMAIN obj THEN ~obj[k] ELSE TRUE

\* app.get('/api/trust/verify/:eventId')
trustVerifyRoute(receipts, eventId, now) ==
  LET verification == verifyTrustReceipt(receipts, eventId, now)
  IN IF NotProp(verification, "valid")
     THEN [status |-> 404, success |-> FALSE,
           error |-> IF "error" \in DOMAIN verification
                     THEN Lit(verification.error) ELSE Undef,
           verification |-> Undef, eventId |-> eventId]
     ELSE [status |-> 200, success |-> TRUE,
           error |-> Undef,
           verification |-> verification.verificationDetails,
           eventId |-> eventId]

\* the data of the receipt of POST /api/trust
DeclarationData ==
  JObj(<<Member("type", JStr(Lit("trust_declaration_created"))),
         Member("agentId", JStr(Lit("agent-001")))>>)

\* the data of the receipt of POST /api/llm/generate
GenerationData ==
  JObj(<<Member("type", JStr(Lit("llm_generation"))),
         Member("provider", JStr(Lit("anthropic")))>>)

demoIdle ==
  UNCHANGED <<hasSignSync, env, receiptKeys, rcpt, prov,
              store, pc, events, idx, prevHash, chainResults>>

\* app.post('/api/trust')
PostTrust ==
  /\ Len(TRUST_RECEIPTS) < MaxReceipts
  /\ \E eventId \in DemoEventIds, now \in DemoClock :
       /\ ~MapHas(TRUST_RECEIPTS, eventId)
       /\ LET receipt == demoGenerateTrustReceipt(TRUST_RECEIPTS,
                           DeclarationData, eventId, now)
          IN /\ TRUST_RECEIPTS' = MapSet(TRUST_RECEIPTS, receipt)
             /\ out' = [status |-> 201, success |-> TRUE,
                        trustReceipt |-> receipt]
  /\ op' = "postTrust"
  /\ demoIdle

\* app.post('/api/llm/generate')
PostLlmGenerate ==
  /\ Len(TRUST_RECEIPTS) < MaxReceipts
  /\ \E includeReceipt \in BOOLEAN, eventId \in DemoEventIds,
        now \in DemoClock :
       /\ ~MapHas(TRUST_RECEIPTS, eventId)
       /\ IF includeReceipt
          THEN LET receipt == demoGenerateTrustReceipt(TRUST_RECEIPTS,
                                GenerationData, eventId, now)
               IN /\ TRUST_RECEIPTS' = MapSet(TRUST_RECEIPTS, receipt)
                  /\ out' = [status |-> 200, success |-> TRUE,
                             trustReceipt |-> receipt]
          ELSE /\ TRUST_RECEIPTS' = TRUST_RECEIPTS
               /\ out' = [status |-> 200, success |-> TRUE]
  /\ op' = "postLlmGenerate"
  /\ demoIdle

\* app.get('/api/trust/verify/:eventId')
GetTrustVerify ==
  /\ \E eventId \in DemoEventIds, now \in DemoClock :
       out' = trustVerifyRoute(TRUST_RECEIPTS, eventId, now)
  /\ op' = "getTrustVerify"
  /\ TRUST_RECEIPTS' = TRUST_RECEIPTS
  /\ demoIdle

\* the demo server runs on its own: the receipt service is not used
NextDemo ==
  \/ PostTrust
  \/ PostLlmGenerate
  \/ GetTrustVerify

\* the demo server's process: no key is configured and none is used
InitDemo ==
  /\ InitDev
  /\ ~hasSignSync
  /\ receiptKeys = initializeReceiptKeys("G1").val

SpecDemo == InitDemo /\ [][NextDemo]_vars

----------------------------------------------------------------------------

(* Specification of the session chain audit *)

\* the verification key is absent, configured as generateKeyPair prints it
\* (base64url of the DER bytes), or configured as the base64url of the PEM text
InitAudit ==
  /\ Init
  /\ env \in { [priv |-> Undef, pub |-> Undef],
               [priv |-> Undef, pub |-> Base64Url(DerSpki("A"))],
               [priv |-> Undef, pub |-> Base64Url(PemSpki("A"))] }

NextAudit ==
  \/ AppendReceipt
  \/ InsertEvent
  \/ SwapAdjacent
  \/ CorruptPrevHash
  \/ AuditStart
  \/ AuditStep
  \/ AuditRespond
  \/ ClearSession

SpecAudit == InitAudit /\ [][NextAudit]_vars

----------------------------------------------------------------------------
(* Properties *)

HasCheck(result, field, status) ==
  \E j \in 1..Len(result.checks) :
    result.checks[j].field = field /\ result.checks[j].status = status

\* POST /api/receipts/verify has answered for the receipt in hand
Verified == op = "verifyReceipt"

\* verifySessionChain has answered a request that named the session
AuditDone == op = "verifySessionChain" /\ pc = "idle"

\* the index of the first entry the audit reports as broken, -1 for none
BreakAt(results) ==
  IF \E j \in 1..Len(results) : ~results[j].hash_valid
  THEN results[CHOOSE j \in 1..Len(results) :
                 /\ ~results[j].hash_valid
                 /\ \A l \in 1..(j-1) : results[l].hash_valid].index
  ELSE -1

\* C1: the verifier accepts every receipt generateTrustReceipt returned,
\* signed or without a signature
C1_RoundTrip ==
  (Verified /\ prov.origin = "build" /\ prov.tamper = "none")
    => (out.status = 200 /\ out.data.valid)

\* C2: after one of payload, inputs_hash, outputs_hash, prev_hash of an
\* accepted receipt was replaced by another value, the verifier answers
\* valid = false with an entry_hash check of status mismatch
C2_TamperSensitivity ==
  (Verified /\ prov.tamper \in TamperFields /\ prov.wasValid)
    => (/\ out.status = 200
        /\ ~out.data.valid
        /\ HasCheck(out.data, "entry_hash", "mismatch"))

\* C3: the audit of a session whose receipts were built in order, each on its
\* predecessor's entry_hash and the first on none, answers valid = true
\* without a break; the empty session is valid with zero entries
C3_ChainContinuity ==
  (AuditDone /\ prov.origin \in {"none", "session"} /\ prov.tamper = "none")
    => (/\ out.status = 200
        /\ out.data.valid
        /\ BreakAt(out.data.results) = -1
        /\ (store = <<>> => out.data.count = 0))

\* C4: after the receipts at positions i and i+1 of a built session changed
\* places, the audit answers valid = false with the break at index i
C4_ReorderingDetected ==
  (AuditDone /\ prov.origin = "session" /\ prov.tamper = "swap")
    => (/\ out.status = 200
        /\ ~out.data.valid
        /\ BreakAt(out.data.results) = prov.at)

\* C5: after only the stored prev_hash of entry i of a built session was
\* overwritten, the audit reports the break at index i
C5_StoredPrevHashChecked ==
  (AuditDone /\ prov.origin = "session" /\ prov.tamper = "prev_hash")
    => (/\ out.status = 200
        /\ ~out.data.valid
        /\ BreakAt(out.data.results) = prov.at)

\* the stored prev_hash of events[j] is its predecessor's entry_hash, or none
LinkOk(evs, j) ==
  OrElse(evs[j].ledger.prev_hash, Null)
    = (IF j = 1 THEN Null ELSE evs[j-1].ledger.row_hash)

\* the entry_hash of events[j] is the one recomputed on its predecessor's
RowOk(evs, j) ==
  AuditEntry(evs[j], j - 1,
             IF j = 1 THEN Null ELSE evs[j-1].ledger.row_hash).result.hash_valid

\* the first entry whose link or whose entry_hash fails, 0 for none
FirstFailure(evs) ==
  IF \E j \in 1..Len(evs) : ~LinkOk(evs, j) \/ ~RowOk(evs, j)
  THEN CHOOSE j \in 1..Len(evs) :
         /\ ~LinkOk(evs, j) \/ ~RowOk(evs, j)
         /\ \A l \in 1..(j-1) : LinkOk(evs, l) /\ RowOk(evs, l)
  ELSE 0

\* C6: the audit stops at the first entry whose prev_hash link or whose
\* entry_hash recomputation fails and reports it as the break; no later entry
\* has a result, and the running previous hash is the entry_hash of the last
\* entry that passed
C6_StopAtFirstBreak ==
  (AuditDone /\ out.status = 200 /\ Len(events) > 0)
    => LET f == FirstFailure(events)
       IN IF f = 0
          THEN /\ Len(out.data.results) = Len(events)
               /\ BreakAt(out.data.results) = -1
               /\ prevHash = events[Len(events)].ledger.row_hash
          ELSE /\ Len(out.data.results) = f
               /\ BreakAt(out.data.results) = f - 1
               /\ prevHash = (IF f = 1 THEN Null ELSE events[f-1].ledger.row_hash)

\* the receipt the last request carried has the fields of the signed form
SignedShape ==
  Truthy(rcpt.payload) /\ Truthy(rcpt.ed25519_sig) /\ Truthy(rcpt.ed25519_pubkey)

\* it has the three hash fields the chain-only form needs
HashFields ==
  Truthy(rcpt.entry_hash) /\ Truthy(rcpt.inputs_hash) /\ Truthy(rcpt.outputs_hash)

\* it has nothing but hash fields
HashOnly ==
  /\ HashFields
  /\ ~Truthy(rcpt.payload) /\ ~Truthy(rcpt.ed25519_sig) /\ ~Truthy(rcpt.ed25519_pubkey)

RequiredChecks(result) ==
  IF result.receipt_type = "ed25519_signed" THEN {"entry_hash", "ed25519_sig"}
  ELSE {"entry_hash"}

\* C8: valid is true exactly when every required check of the detected shape
\* is reported with status valid; the signature check is also reported when
\* the entry_hash check failed; the advisory fields, which only produce
\* warnings, leave valid as it was
C8_VerdictIsConjunction ==
  (Verified /\ out.status = 200) =>
    /\ out.data.valid
         <=> \A f \in RequiredChecks(out.data) : HasCheck(out.data, f, "valid")
    /\ (out.data.receipt_type = "ed25519_signed"
        /\ HasCheck(out.data, "entry_hash", "mismatch"))
         => \E j \in 1..Len(out.data.checks) : out.data.checks[j].field = "ed25519_sig"
    /\ prov.tamper = "annotate" => (out.data.valid <=> prov.wasValid)

\* a signed receipt with an unparseable timestamp and a numeric policy_id was
\* verified: both warnings are there and valid is true
C8_Witness ==
  /\ Verified
  /\ out.status = 200
  /\ out.data.receipt_type = "ed25519_signed"
  /\ prov.tamper = "annotate"
  /\ Len(out.data.warnings) >= 2
  /\ out.data.valid

\* C9: the signature verification primitives return a boolean for every
\* digest, signature and key, and never throw
C9_VerifyNeverThrows ==
  (op \in {"verifySignature", "verifyEd25519Signature"}) => ~out.threw

\* the signature stored with events[j] does not verify under the configured key
BadSignature(evs, j) ==
  LET r == ledgerEntryToReceipt(evs[j])
      v == verifyEd25519Signature(r.entry_hash, r.ed25519_sig, r.ed25519_pubkey)
  IN Truthy(r.ed25519_sig) /\ Truthy(r.ed25519_pubkey) /\ (v.threw \/ ~v.val)

\* C10: the audit of a session with an entry whose signature does not verify
\* still answers with a structured result, in which every such entry it
\* reached has signature_valid = false
C10_BadSignatureIsVerdict ==
  (AuditDone /\ \E j \in 1..Len(events) : BadSignature(events, j))
    => /\ out.status = 200
       /\ \A j \in 1..Len(out.data.results) :
            BadSignature(events, j) => out.data.results[j].signature_valid = "false"

\* POST /api/receipts/verify has answered, with or without a receipt in the body
VerifyAnswered == op \in {"verifyReceipt", "verifyReceiptNoBody"}

C12_SignatureBinding ==
  (Verified /\ prov.tamper = "pubkey" /\ prov.wasValid)
    => /\ out.status = 200
       /\ out.data.receipt_type = "ed25519_signed"
       /\ ~out.data.valid
       /\ HasCheck(out.data, "entry_hash", "valid")
       /\ HasCheck(out.data, "ed25519_sig", "invalid")
            \/ HasCheck(out.data, "ed25519_sig", "error")

\* a receipt signed with pair A and accepted was verified under the readable
\* public key of pair B: the signature check is reported invalid
C12_Witness ==
  /\ Verified
  /\ prov.tamper = "pubkey"
  /\ prov.wasValid
  /\ rcpt.ed25519_pubkey = Base64Url(PemSpki("B"))
  /\ ~out.data.valid
  /\ HasCheck(out.data, "ed25519_sig", "invalid")

\* C13: two calls of generateTrustReceipt with the same event descriptor and
\* the same prior hash, under the same key state, return the same entry_hash,
\* also when the descriptor leaves the timestamp unset
C13_BuildDeterminism ==
  op = "generateAgain" => (out.status = 200 /\ out.second = out.first)

\* a receipt the service has just returned, by build or by conversion
Produced ==
  /\ op \in {"generateTrustReceipt", "generateAgain", "ledgerEntryToReceipt"}
  /\ out.status = 200

\* C14: every receipt the service returns is of exactly one shape: payload,
\* signature and public key all present (signed) or all absent (chain-only),
\* never only some of them; inputs_hash, outputs_hash, prev_hash and
\* entry_hash are always there
C14_ReceiptShape ==
  Produced =>
    /\ \/ Truthy(rcpt.payload) /\ Truthy(rcpt.ed25519_sig) /\ Truthy(rcpt.ed25519_pubkey)
       \/ ~Truthy(rcpt.payload) /\ ~Truthy(rcpt.ed25519_sig) /\ ~Truthy(rcpt.ed25519_pubkey)
    /\ \A f \in {"inputs_hash", "outputs_hash", "prev_hash", "entry_hash"} :
         rcpt[f] # Undef

\* generateTrustReceipt has just returned a receipt
Built == op \in {"generateTrustReceipt", "generateAgain"} /\ out.status = 200

\* the digest of prev_hash, inputs_hash and outputs_hash one after the other,
\* an absent prev_hash counting as the empty text
ChainDigest(receipt) ==
  sha256Hex(Plus(Plus(OrElse(receipt.prev_hash, EmptyStr), receipt.inputs_hash),
                 receipt.outputs_hash))

\* C15: a receipt returned by build is signed and has entry_hash =
\* digest(payload) when a signing key is configured; when none is configured
\* it is chain-only and has entry_hash = digest(prev_hash, inputs_hash,
\* outputs_hash)
C15_EntryHashRule ==
  Built =>
    /\ Truthy(rcpt.ed25519_sig) => rcpt.entry_hash = sha256Hex(rcpt.payload)
    /\ Truthy(env.priv) =>
         /\ Truthy(rcpt.ed25519_sig)
         /\ rcpt.entry_hash = sha256Hex(rcpt.payload)
    /\ ~Truthy(env.priv) =>
         /\ ~Truthy(rcpt.payload)
         /\ ~Truthy(rcpt.ed25519_sig)
         /\ ~Truthy(rcpt.ed25519_pubkey)
         /\ rcpt.entry_hash = ChainDigest(rcpt)

\* C16: a built receipt's prev_hash is the prior entry_hash the call was
\* given, or null when it was given none; in the list generateBatchReceipts
\* returns, the first receipt's prev_hash is the starting hash or null and
\* every later receipt's prev_hash is the entry_hash of the receipt before it
C16_BuilderLinkage ==
  /\ (op = "generateTrustReceipt" /\ out.status = 200)
       => rcpt.prev_hash = OrElse(out.prev_hash, Null)
  /\ (op = "generateBatchReceipts" /\ out.status = 200)
       => \A j \in 1..Len(out.receipts) :
            out.receipts[j].prev_hash
              = (IF j = 1 THEN OrElse(out.start, Null)
                 ELSE out.receipts[j-1].entry_hash)

\* a batch of three receipts was built on a starting hash
C16_Witness ==
  /\ op = "generateBatchReceipts"
  /\ out.status = 200
  /\ Len(out.receipts) = 3
  /\ out.start = PriorHash
  /\ out.receipts[1].prev_hash = PriorHash
  /\ out.receipts[3].prev_hash = out.receipts[2].entry_hash

\* the two environment values are the private and the public key of one pair
SamePair(priv, pub) ==
  \E k \in KeyIds :
    /\ priv = PemPkcs8(k)
    /\ pub \in {Base64Url(PemSpki(k)), Base64Url(DerSpki(k))}

ReceiptOps ==
  {"generateTrustReceipt", "generateAgain", "generateBatchReceipts",
   "ledgerEntryToReceipt"}

\* C18: a call of build, batch build or conversion returns receipts only when
\* a key pair is held, that is after an initialization has succeeded, and the
\* receipt carries that pair's public key; a call made while no pair is held
\* throws 'Receipt service not initialized' and the caller gets no receipt
C18_InitPrecedesSigning ==
  [][ op' \in ReceiptOps =>
        /\ out'.status = 200 =>
             /\ receiptKeys.held
             /\ op' # "generateBatchReceipts" =>
                  rcpt'.ed25519_pubkey = receiptKeys.publicKeyBase64Url
        /\ ~receiptKeys.held =>
             /\ out'.status = 500
             /\ out'.error = "Receipt service not initialized"
             /\ rcpt' = rcpt
             /\ op' = "generateBatchReceipts" => out'.receipts = <<>> ]_vars

\* batch building was called while no key pair was held and threw
C18_Witness ==
  /\ op = "generateBatchReceipts"
  /\ ~receiptKeys.held
  /\ out.status = 500
  /\ out.error = "Receipt service not initialized"

\* C19: once a key pair is held, no call of initializeService, build, batch
\* build, conversion or status changes it
C19_KeyPairReadOnly ==
  [][ receiptKeys.held => receiptKeys' = receiptKeys ]_vars

\* C20: while no key pair is held because loading the keys has failed, no
\* signed receipt is produced, a call of build with a complete descriptor
\* still returns a chain-only receipt (no signature, no key, entry_hash the
\* chain digest), and a chain-only receipt is still verified
C20_KeyFailureFatalToSigningOnly ==
  ~receiptKeys.held =>
    /\ (op \in ReceiptOps /\ out.status = 200) => ~Truthy(rcpt.ed25519_sig)
    /\ (/\ op = "generateTrustReceipt"
        /\ Truthy(out.interactionData.prompt)
        /\ Truthy(out.interactionData.response)) =>
         /\ out.status = 200
         /\ ~Truthy(rcpt.ed25519_sig)
         /\ ~Truthy(rcpt.ed25519_pubkey)
         /\ rcpt.entry_hash = ChainDigest(rcpt)
    /\ (Verified /\ prov.origin = "hashchain" /\ prov.tamper = "none") =>
         /\ out.status = 200
         /\ out.data.valid
         /\ out.data.receipt_type = "hash_chain"

\* C21: for a receipt routed to the chain-only form, the verdict is valid
\* exactly when entry_hash is the digest of prev_hash, inputs_hash and
\* outputs_hash concatenated, an absent or null prev_hash counting as the
\* empty text; otherwise valid is false and the entry_hash check has status
\* mismatch and carries the expected and the actual value
C21_ChainOnlyFormula ==
  (Verified /\ out.status = 200 /\ out.data.receipt_type = "hash_chain") =>
    IF rcpt.entry_hash = ChainDigest(rcpt)
    THEN /\ out.data.valid
         /\ HasCheck(out.data, "entry_hash", "valid")
         /\ ~HasCheck(out.data, "entry_hash", "mismatch")
    ELSE /\ ~out.data.valid
         /\ \E j \in 1..Len(out.data.checks) :
              /\ out.data.checks[j].field = "entry_hash"
              /\ out.data.checks[j].status = "mismatch"
              /\ out.data.checks[j].expected = ChainDigest(rcpt)
              /\ out.data.checks[j].actual = rcpt.entry_hash

\* a first chain-only receipt (prev_hash null) was verified as valid
C21_Witness ==
  /\ Verified
  /\ prov.origin = "hashchain"
  /\ prov.tamper = "none"
  /\ rcpt.prev_hash = Null
  /\ out.status = 200
  /\ out.data.receipt_type = "hash_chain"
  /\ out.data.valid

\* C22: for every audited entry whose stored prev_hash is its predecessor's
\* entry_hash (none for the first), the expected entry_hash the auditor
\* recomputes is the one single-receipt verification computes for the same
\* receipt, and a chain-only entry is hash-valid in the audit exactly when
\* single-receipt verification accepts it
C22_AuditorAgreesWithVerifier ==
  (AuditDone /\ out.status = 200) =>
    \A j \in 1..Len(out.data.results) :
      LET receipt == ledgerEntryToReceipt(events[j])
          single == verifyHashChainReceipt(receipt)
      IN LinkOk(events, j) =>
           /\ out.data.results[j].expected_hash = ChainDigest(receipt)
           /\ out.data.results[j].hash_valid <=> single.valid

\* C23: signMessage signs the bytes of the hex text of the digest, not the
\* decoded digest, and the signature it returns for a digest verifies under
\* the public key that belongs to the private key
C23_SigningEncoding ==
  op = "signThenVerify" =>
    /\ ~out.signThrew
    /\ out.signature = Base64(SigBytes(out.pair, BufferFromText(out.message)))
    /\ ~out.threw
    /\ out.val

\* the signature attached to the receipt is the one of its entry_hash under
\* the pair whose public key is attached, in whatever encoding
SignatureVerifies(receipt) ==
  \E k \in KeyIds :
    /\ receipt.ed25519_pubkey \in PubKeyEncodings(k)
    /\ receipt.ed25519_sig = Base64(SigBytes(k, BufferFromHex(receipt.entry_hash)))

\* C24: a receipt routed through the signed form whose signature or public
\* key was replaced, so that the signature does not verify under the attached
\* key, gets a verdict with valid = false and an ed25519_sig check of status
\* invalid
C24_FailedSignatureStatus ==
  (/\ Verified
   /\ SignedShape
   /\ prov.tamper \in {"sig", "pubkey"}
   /\ ~SignatureVerifies(rcpt))
    => /\ out.status = 200
       /\ out.data.receipt_type = "ed25519_signed"
       /\ ~out.data.valid
       /\ HasCheck(out.data, "ed25519_sig", "invalid")

\* C25: a receipt that has payload and entry_hash but no signature or no
\* public key gets a verdict, not a rejection: receipt_type ed25519_signed,
\* valid = false, and a check of status missing for each absent field
C25_PartialSignedReceipt ==
  (/\ Verified
   /\ Truthy(rcpt.payload) /\ Truthy(rcpt.entry_hash)
   /\ ~Truthy(rcpt.ed25519_sig) \/ ~Truthy(rcpt.ed25519_pubkey))
    => /\ out.status = 200
       /\ out.data.receipt_type = "ed25519_signed"
       /\ ~out.data.valid
       /\ \A f \in {"ed25519_sig", "ed25519_pubkey"} :
            ~Truthy(rcpt[f]) => HasCheck(out.data, f, "missing")

\* the timestamp the payload of the receipt carries, undefined when the
\* payload is no JSON object or has none
PayloadTimestamp(receipt) ==
  IF JSONparse(receipt.payload).threw THEN Undef
  ELSE Get(JSONparse(receipt.payload).val, "timestamp")

\* C26: the verdict on a signed-form receipt whose payload carries a
\* timestamp that is no parseable date has a warning with field timestamp
C26_TimestampWarning ==
  (/\ Verified
   /\ SignedShape
   /\ Truthy(rcpt.entry_hash)
   /\ Truthy(PayloadTimestamp(rcpt))
   /\ ~IsDate(PayloadTimestamp(rcpt)))
    => /\ out.status = 200
       /\ \E j \in 1..Len(out.data.warnings) :
            out.data.warnings[j].field = "timestamp"

\* C27: in the demo server, GET /api/trust/verify/:eventId for the eventId
\* of a stored receipt answers with success and that receipt's verification
\* details, and 404 is answered only for an eventId that was never stored
C27_DemoVerifyEndpoint ==
  op = "getTrustVerify" =>
    /\ MapHas(TRUST_RECEIPTS, out.eventId) =>
         /\ out.status = 200
         /\ out.success
         /\ out.verification.auditTrail.eventId = out.eventId
         /\ out.verification.auditTrail.created =
              MapGet(TRUST_RECEIPTS, out.eventId).timestamp
    /\ out.status = 404 => ~MapHas(TRUST_RECEIPTS, out.eventId)

\* C28: in the answer of a non-empty session audit, results holds the entries
\* 0..k in order, k being the first index reported hash-invalid or the last
\* index; the three signature counts add up to the number of results;
\* total_events and count are the number of events even when the walk stopped
\* early; valid is true exactly when every result is hash-valid and none has
\* signature_valid = false
C28_AuditAccounting ==
  (AuditDone /\ out.status = 200 /\ Len(events) > 0)
    => LET d == out.data
           rs == d.results
           n == Len(events)
           With(v) == {j \in 1..Len(rs) : rs[j].signature_valid = v}
       IN /\ Len(rs) \in 1..n
          /\ \A j \in 1..Len(rs) :
               /\ rs[j].index = j - 1
               /\ rs[j].event_id = events[j].event_id
          /\ \A j \in 1..(Len(rs) - 1) : rs[j].hash_valid
          /\ Len(rs) < n => ~rs[Len(rs)].hash_valid
          /\ d.summary.signatures_valid + d.summary.signatures_invalid
               + d.summary.signatures_unchecked = Len(rs)
          /\ d.summary.signatures_valid = Cardinality(With("true"))
          /\ d.summary.signatures_invalid = Cardinality(With("false"))
          /\ d.summary.signatures_unchecked = Cardinality(With("null"))
          /\ d.summary.total_events = n
          /\ d.count = n
          /\ d.valid <=> (/\ \A j \in 1..Len(rs) : rs[j].hash_valid
                          /\ With("false") = {})

\* an audit that stopped at a break after at least one entry passed
C28_Witness ==
  /\ AuditDone
  /\ out.status = 200
  /\ Len(out.data.results) >= 2
  /\ Len(out.data.results) < out.data.count

\* the exported text names the public key of pair k, in either encoding
ExportsKeyOf(body, k) == body \in {Base64Url(PemSpki(k)), Base64Url(DerSpki(k))}

C30_StatusReflectsKeyInUse ==
  op = "getServiceStatus" =>
    /\ out.data.mode = "production" =>
         /\ receiptKeys.held
         /\ ~receiptKeys.isGenerated
         /\ receiptKeys.privateKeyPem = env.priv
         /\ receiptKeys.publicKeyBase64Url = env.pub
    /\ (receiptKeys.held /\ receiptKeys.isGenerated) => out.data.mode = "development"

====
